---- MODULE Spec2Model ----
(***************************************************************************)
(* Price-observation pipeline of the watchlist bot:                        *)
(*   src/bot/handlers.py            link submission and removal            *)
(*   src/scheduler/price_checker.py check_single_product and the two       *)
(*                                  rotation jobs                          *)
(*   src/config/settings.py         the configuration the jobs read        *)
(*   src/main.py                    the scheduler's job defaults           *)
(*                                                                         *)
(* Everything runs on one asyncio event loop.  A coroutine runs without    *)
(* interruption from one await to the next, so each action below is the    *)
(* code between two awaits.  `running` names the job invocation that holds *)
(* the event loop between two of its own (non-awaiting) steps.             *)
(*                                                                         *)
(* Prices are counted in whole currency units; None is Python's None.      *)
(* The rows of price_history are kept per product in checked_at order, so  *)
(* order_by(checked_at.desc()).first() is the last row of the product.     *)
(***************************************************************************)
EXTENDS Integers, Sequences, FiniteSets, TLC

None == -1

\* ---- bounds of the model ----
NumAsins == 2
MaxPrice == 2
MaxRows == 2
NumInst == 2
WalkPopulation == 7
NumLimitAsins == 6
MaxTextLen == 4
MaxReferrals == 5
LimitReferrals == 3
NumClients == 2
MaxClock == 32

\* ---- program constants ----
max_products_per_minute == 600
max_products_per_cycle == 9000
max_instances == 3
BaseProductLimit == 3
VipProductLimit == 5
VipReferrals == 3
min_request_interval == 10   \* 1.0 second

Asins == 1..NumAsins
Prices == 0..MaxPrice
OptPrices == Prices \cup {None}
Inst == 1..NumInst
DetAsins == {1}
DetInst == {1}
RotPrices == {1}
Tiers == {"vip", "regular"}
VipUser == 1
RegularUser == 2
Users == {VipUser, RegularUser}
TargetChoices == {MaxPrice}
ThresholdChoices == {50}

VARIABLES
    settings,        \* config.settings.settings
    users,           \* table users
    products,        \* table products, in id order (id = position)
    user_products,   \* table user_products, in insertion order
    price_history,   \* table price_history: product id -> prices in checked_at order
    _product_index,  \* the global rotation cursor
    job,             \* the running invocations of the two price-check jobs
    running,         \* invocation holding the event loop, 0 when every coroutine is suspended
    visited,         \* per tier: items its job has checked in the current rotation round
    price_text,      \* the argument of a call of AmazonScraper._extract_price_from_text
    extracted,       \* what that call returned, in cents; Pending before it returns
    signing,         \* the runs of AmazonAPIClient._sign_request that are compared
    clock,           \* time.time(), in tenths of a second
    api_clients,     \* the AmazonAPIClient objects: last_request_time, None when not constructed
    outbound,        \* the times of the last two requests sent to the signed API
    fetched          \* the last call of a price source's get_product_info

vars == <<settings, users, products, user_products, price_history, _product_index,
          job, running, visited, price_text, extracted, signing,
          clock, api_clients, outbound, fetched>>

\* what the bot and the jobs only read or never touch
envvars == <<settings, price_text, extracted, signing, clock, api_clients, outbound,
            fetched>>

dbvars == <<users, products, user_products, price_history>>

Pending == -2

\* ---- amazon/scraper.py and amazon/api_client.py: get_product_info ----
\* What a source returns to its caller: None, or a snapshot with its title (a
\* non-empty string or not) and its price (None when the page or the item has none)
NoneResult == [kind |-> "none", title |-> FALSE, price |-> None]

Snapshot(title, price) == [kind |-> "info", title |-> title, price |-> price]

\* What the HTTP request of one call meets.  error: the request raises a
\* requests.exceptions.RequestException before a response arrives ("network"),
\* raise_for_status() raises one for the status of the response ("http"), or the
\* code that reads the response raises any other exception ("other").  captcha: the
\* page carries a robot-check marker.  Errors: the top-level Errors key of the JSON
\* body, absent, an empty array or an array of errors.  Items: ItemsResult.Items,
\* absent, empty or holding the item.  title, price: what the page or the item holds
ScraperResponses ==
    [error : {"none", "network", "http", "other"}, captcha : BOOLEAN, Errors : {"absent"}, Items : {"absent"},
     title : BOOLEAN, price : 0..MaxPrice \cup {None}]

ApiResponses ==
    [error : {"none", "network", "http", "other"}, captcha : {FALSE}, Errors : {"absent", "empty", "listed"},
     Items : {"absent", "empty", "item"}, title : BOOLEAN, price : 0..MaxPrice \cup {None}]

\* no call of get_product_info yet
NoFetch ==
    [source |-> "none",
     response |-> [error |-> "none", captcha |-> FALSE, Errors |-> "absent",
                   Items |-> "absent", title |-> FALSE, price |-> None],
     requests |-> 0, raised |-> FALSE, result |-> NoneResult]

ScraperKeepsPricelessSnapshot(resp) ==
    [source |-> "Scraping", response |-> resp, requests |-> 1, raised |-> FALSE,
     result |-> IF resp.error # "none" \/ resp.captcha
                THEN NoneResult
                ELSE Snapshot(resp.title, resp.price)]

\* AmazonScraper.get_product_info: the wait of _rate_limit (time.time, random.uniform
\* and a time.sleep of a positive duration), then inside the try one session.get,
\* raise_for_status, the test for the robot-check markers, the extraction, and the
\* return of the snapshot only if its price is not None; both except clauses return
\* None
ScraperGetProductInfo(resp) ==
    [source |-> "Scraping", response |-> resp, requests |-> 1, raised |-> FALSE,
     result |-> IF resp.error # "none" \/ resp.captcha \/ resp.price = None
                THEN NoneResult
                ELSE Snapshot(resp.title, resp.price)]

ApiReadsItemsBeforeErrors(resp, credentials) ==
    IF ~credentials
    THEN [source |-> "PA-API", response |-> resp, requests |-> 0, raised |-> TRUE,
          result |-> [kind |-> "raise", title |-> FALSE, price |-> None]]
    ELSE [source |-> "PA-API", response |-> resp, requests |-> 1, raised |-> FALSE,
          result |-> IF resp.error # "none" THEN NoneResult
                     ELSE IF resp.Items = "item" THEN Snapshot(resp.title, resp.price)
                     ELSE NoneResult]

\* AmazonAPIClient.get_product_info: ValueError without credentials, before any
\* request; otherwise one signed POST inside the try.  A body with the key Errors
\* returns None (indexing an empty Errors array raises IndexError, which the second
\* except clause turns into None as well); else the first item of ItemsResult.Items
\* is parsed into a snapshot whose title and price are those the item holds; else None
ApiGetProductInfo(resp, credentials) ==
    IF ~credentials
    THEN [source |-> "PA-API", response |-> resp, requests |-> 0, raised |-> TRUE,
          result |-> [kind |-> "raise", title |-> FALSE, price |-> None]]
    ELSE [source |-> "PA-API", response |-> resp, requests |-> 1, raised |-> FALSE,
          result |-> IF resp.error # "none" \/ resp.Errors # "absent" THEN NoneResult
                     ELSE IF resp.Items = "item" THEN Snapshot(resp.title, resp.price)
                     ELSE NoneResult]

\* no call of the scraper's text normalizer or of the request signing is looked at
NoCall ==
    /\ price_text = <<>> /\ extracted = Pending /\ signing = <<>>
    /\ clock = 0 /\ api_clients = <<>> /\ outbound = <<>>
    /\ fetched = NoFetch

\* Python truthiness of an Optional[float]
Truthy(x) == x # None /\ x # 0

Min(a, b) == IF a < b THEN a ELSE b

\* ---- config/settings.py ----
\* The Settings class defines ENABLE_PA_API and the Amazon credentials.  It defines
\* neither TELEGRAM_CHANNEL_ID nor CHANNEL_DEAL_THRESHOLD, which price_checker.py reads:
\* channel = "missing" is that class as written (reading the attribute raises
\* AttributeError); "unset" and "set" are a Settings class that defines them.
SettingsChoices ==
    {c \in [ENABLE_PA_API : BOOLEAN, credentials : BOOLEAN,
            channel : {"missing", "unset", "set"},
            CHANNEL_DEAL_THRESHOLD : ThresholdChoices] :
        ~c.ENABLE_PA_API => c.credentials}

\* ---- database/models.py ----
NewUser(vip) ==
    [is_vip |-> vip,
     referrer_id |-> None,
     referral_count |-> IF vip THEN VipReferrals ELSE 0,
     product_limit |-> IF vip THEN VipProductLimit ELSE BaseProductLimit]

NewProduct(asin, title, price, target) ==
    [asin |-> asin, title |-> title, url |-> TRUE,
     initial_price |-> price, target_price |-> target]

FindProduct(asin) ==
    IF \E k \in 1..Len(products) : products[k].asin = asin
    THEN CHOOSE k \in 1..Len(products) : products[k].asin = asin
    ELSE 0

WatchRows(u, pid) ==
    {k \in 1..Len(user_products) :
        user_products[k].user_id = u /\ user_products[k].product_id = pid}

WatchCount(u) ==
    Cardinality({k \in 1..Len(user_products) : user_products[k].user_id = u})

RemoveAt(s, k) == [j \in 1..(Len(s) - 1) |-> IF j < k THEN s[j] ELSE s[j + 1]]

\* lines 56-60 of price_checker.py: the price of the newest row of a product, None
\* when it has no row
LatestOf(history, pid) ==
    IF history[pid] = <<>> THEN None
    ELSE history[pid][Len(history[pid])]

LatestPrice(pid) == LatestOf(price_history, pid)

\* ---- the tier populations (price_checker.py, the query of each job) ----
IsWatchedByTier(ups, usrs, pid, t) ==
    \E k \in 1..Len(ups) :
        /\ ups[k].product_id = pid
        /\ usrs[ups[k].user_id].is_vip = (t = "vip")

\* db.query(Product).join(UserProduct).join(User).filter(User.is_vip == ...)
\*   .distinct().order_by(Product.id).all()
TierProducts(prods, ups, usrs, t) ==
    SelectSeq([k \in 1..Len(prods) |-> k], LAMBDA pid : IsWatchedByTier(ups, usrs, pid, t))

Population(t) == TierProducts(products, user_products, users, t)

\* the rotation-round bookkeeping starts afresh when a tier's population changes
VisitedAfterDbChange ==
    visited' = [t \in Tiers |->
                  IF TierProducts(products', user_products', users', t) = Population(t)
                  THEN visited[t] ELSE {}]

\* ---- amazon/scraper.py ----
\* A text is a sequence of characters; a price is a number of cents (every result of
\* the normalizer has at most two decimals).
DigitChars == <<"0", "1", "2", "3", "4", "5", "6", "7", "8", "9">>

Digits == {DigitChars[k] : k \in 1..Len(DigitChars)}

DigitValue(c) == (CHOOSE k \in 1..Len(DigitChars) : DigitChars[k] = c) - 1

\* line 116: the character class [€$£¥]
CurrencySymbols == {"€", "$", "£", "¥"}

IsDigit(t, p) == p \in 1..Len(t) /\ t[p] \in Digits

IsChar(t, p, c) == p \in 1..Len(t) /\ t[p] = c

\* int() of a string of digits
RECURSIVE Number(_)
Number(ds) ==
    IF ds = <<>> THEN 0
    ELSE Number(SubSeq(ds, 1, Len(ds) - 1)) * 10 + DigitValue(ds[Len(ds)])

\* str.strip()
RECURSIVE Strip(_)
Strip(t) ==
    IF t = <<>> THEN t
    ELSE IF t[1] = " " THEN Strip(Tail(t))
    ELSE IF t[Len(t)] = " " THEN Strip(SubSeq(t, 1, Len(t) - 1))
    ELSE t

\* lines 114-116
Cleaned(t) == Strip(SelectSeq(Strip(t), LAMBDA c : c \notin CurrencySymbols))

\* the number of repetitions of (?:<sep>\d{3}) that match at position p
RECURSIVE Groups(_, _, _)
Groups(t, p, sep) ==
    IF IsChar(t, p, sep) /\ IsDigit(t, p + 1) /\ IsDigit(t, p + 2) /\ IsDigit(t, p + 3)
    THEN 1 + Groups(t, p + 4, sep)
    ELSE 0

\* <dec>(\d{2}) matches at position p
Decimals(t, p, dec) == IsChar(t, p, dec) /\ IsDigit(t, p + 1) /\ IsDigit(t, p + 2)

\* the ways (\d{1,3}(?:<sep>\d{3})*)<dec>(\d{2}) matches: start, digits of the head,
\* number of groups
GroupedMatches(t, sep, dec) ==
    {m \in (1..Len(t)) \X (1..3) \X (0..Len(t)) :
        /\ \A k \in 0..(m[2] - 1) : IsDigit(t, m[1] + k)
        /\ m[3] <= Groups(t, m[1] + m[2], sep)
        /\ Decimals(t, m[1] + m[2] + 4 * m[3], dec)}

\* re.search: the leftmost start, and there the first match of the backtracking
\* search, which tries the longer head and then the larger number of groups first
FirstGrouped(t, sep, dec) ==
    CHOOSE m \in GroupedMatches(t, sep, dec) :
        \A o \in GroupedMatches(t, sep, dec) :
            \/ m[1] < o[1]
            \/ m[1] = o[1] /\ m[2] > o[2]
            \/ m[1] = o[1] /\ m[2] = o[2] /\ m[3] >= o[3]

\* float(f"{whole_part}.{decimal_part}") in cents
Cents(whole, decimals) == Number(whole) * 100 + Number(decimals)

\* lines 120-126 / 131-137: group 1 without its separators, and group 2
GroupedPrice(t, sep, dec) ==
    LET m == FirstGrouped(t, sep, dec)
        e == m[1] + m[2] + 4 * m[3]
    IN  Cents(SelectSeq(SubSeq(t, m[1], e - 1), LAMBDA c : c # sep),
              SubSeq(t, e + 1, e + 2))

\* the end of the run of digits that starts at position p
RECURSIVE RunEnd(_, _)
RunEnd(t, p) == IF IsDigit(t, p + 1) THEN RunEnd(t, p + 1) ELSE p

\* the starts of the matches of (\d+)<dec>(\d{2})
SimpleMatches(t, dec) ==
    {p \in 1..Len(t) : IsDigit(t, p) /\ Decimals(t, RunEnd(t, p) + 1, dec)}

\* lines 140-154
SimplePrice(t, dec) ==
    LET p == CHOOSE q \in SimpleMatches(t, dec) : \A o \in SimpleMatches(t, dec) : q <= o
        e == RunEnd(t, p)
    IN  Cents(SubSeq(t, p, e), SubSeq(t, e + 2, e + 3))

\* lines 157-161: (\d+)
IntegerPrice(t) ==
    LET p == CHOOSE q \in 1..Len(t) : IsDigit(t, q) /\ \A o \in 1..(q - 1) : ~IsDigit(t, o)
    IN  Cents(SubSeq(t, p, RunEnd(t, p)), <<>>)

\* lines 100-163
_extract_price_from_text(text) ==
    LET t == Cleaned(text) IN
    IF text = <<>> THEN None
    ELSE IF GroupedMatches(t, ".", ",") # {} THEN GroupedPrice(t, ".", ",")
    ELSE IF GroupedMatches(t, ",", ".") # {} THEN GroupedPrice(t, ",", ".")
    ELSE IF SimpleMatches(t, ",") # {} THEN SimplePrice(t, ",")
    ELSE IF SimpleMatches(t, ".") # {} THEN SimplePrice(t, ".")
    ELSE IF \E p \in 1..Len(t) : IsDigit(t, p) THEN IntegerPrice(t)
    ELSE None

\* the texts of the price elements the scraper reads: the prices the documentation
\* of the normalizer names, a grouped number without decimals, and every text of
\* up to MaxTextLen characters of TextAlphabet
TextAlphabet == {"1", "2", ".", ",", "€", " "}

RECURSIVE TextsOfLen(_)
TextsOfLen(n) ==
    IF n = 0 THEN {<<>>}
    ELSE {Append(t, c) : t \in TextsOfLen(n - 1), c \in TextAlphabet}

PriceTexts ==
    {<<"€", "2", "9", ",", "9", "9">>,
     <<"1", ".", "2", "9", "9", ",", "9", "9">>,
     <<"1", ",", "2", "9", "9", ".", "9", "9">>,
     <<"2", "9", ".", "9", "9">>,
     <<"2", "9">>,
     <<"1", ".", "2", "3", "4">>}
    \cup UNION {TextsOfLen(n) : n \in 0..MaxTextLen}

\* the scraper calls the normalizer on the text of a price element
ExtractPrice ==
    /\ extracted = Pending
    /\ extracted' = _extract_price_from_text(price_text)
    /\ UNCHANGED <<settings, dbvars, _product_index, job, running, visited, price_text,
                   signing, clock, api_clients, outbound, fetched>>

\* ---- amazon/api_client.py ----
\* Digests are terms: the signature is compared, never computed.
sha256(data) == <<"sha256", data>>

hmac_sha256(key, msg) == <<"hmac", key, msg>>

\* lines 25-39: self.endpoints.get(self.region.upper(), self.endpoints['IT'])[0]
Endpoint(region) ==
    IF region = "US" THEN "webservices.amazon.com" ELSE "webservices.amazon.it"

\* lines 15-41: the attributes of a client; last_request_time is the state of its
\* rate limiter
ClientChoices ==
    {c \in [access_key : {"AK1", "AK2"}, secret_key : {"SK1", "SK2"},
            associate_tag : {"tag-21"}, region : {"IT", "US"},
            endpoint : {Endpoint("IT"), Endpoint("US")},
            last_request_time : {0, 1}] :
        c.endpoint = Endpoint(c.region)}

\* line 104: the '%Y%m%dT%H%M%SZ' timestamps, as date and time of day
TimestampChoices == [date : {"20260101", "20260102"}, time : {"T120000Z"}]

\* lines 106-118: the serialized request, one per item
PayloadChoices == {"payload-1", "payload-2"}

CanonicalHeadersWithClientState(self, timestamp) ==
    <<"host:", self.endpoint, "x-amz-date:", self.last_request_time>>

\* line 48
CanonicalHeaders(self, timestamp) == <<"host:", self.endpoint, "x-amz-date:", timestamp>>

\* lines 43-75
_sign_request(self, method, uri, payload, timestamp) ==
    LET signed_headers == "host;x-amz-date"
        payload_hash == sha256(payload)
        canonical_request ==
            <<method, uri, "", CanonicalHeaders(self, timestamp), signed_headers, payload_hash>>
        algorithm == "AWS4-HMAC-SHA256"
        credential_scope ==
            <<timestamp.date, self.region, "ProductAdvertisingAPI", "aws4_request">>
        string_to_sign == <<algorithm, timestamp, credential_scope, sha256(canonical_request)>>
        k_date == hmac_sha256(<<"AWS4", self.secret_key>>, timestamp.date)
        k_region == hmac_sha256(k_date, self.region)
        k_service == hmac_sha256(k_region, "ProductAdvertisingAPI")
        k_signing == hmac_sha256(k_service, "aws4_request")
        signature == hmac_sha256(k_signing, string_to_sign)
    IN  [Authorization |->
            <<algorithm, "Credential=", self.access_key, credential_scope,
              "SignedHeaders=", signed_headers, "Signature=", signature>>,
         X_Amz_Date |-> <<timestamp>>]

\* the two runs of the signing operation that are compared
Runs == {1, 2}

NoHeaders == [Authorization |-> <<>>, X_Amz_Date |-> <<>>]

\* line 121: one run signs its request
SignRequest(r) ==
    /\ ~signing[r].done
    /\ signing' = [signing EXCEPT
                      ![r].done = TRUE,
                      ![r].headers = _sign_request(signing[r].self, "POST", "/paapi5/getitems",
                                                   signing[r].payload, signing[r].timestamp)]
    /\ UNCHANGED <<settings, dbvars, _product_index, job, running, visited, price_text,
                   extracted, clock, api_clients, outbound, fetched>>

\* time.time() at the start of the process: the epoch is long past, so a client
\* that was just constructed (last_request_time = 0) never waits
StartTime == min_request_interval

Clients == 1..NumClients

\* AmazonAPIClient() at price_checker.py:286 and :359 (one per job invocation) and
\* at handlers.py:356 (one per submitted link): __init__ line 40
NewClient(c) ==
    /\ api_clients[c] = None
    /\ api_clients' = [api_clients EXCEPT ![c] = 0]
    /\ UNCHANGED <<settings, dbvars, _product_index, job, running, visited, price_text,
                   extracted, signing, clock, outbound, fetched>>

\* the invocation or the handler that constructed the client returns
DropClient(c) ==
    /\ api_clients[c] # None
    /\ api_clients' = [api_clients EXCEPT ![c] = None]
    /\ UNCHANGED <<settings, dbvars, _product_index, job, running, visited, price_text,
                   extracted, signing, clock, outbound, fetched>>

\* lines 77-86: when _rate_limit returns; time.sleep blocks the thread, so nothing
\* else runs while it waits
_rate_limit(c) ==
    IF clock - api_clients[c] < min_request_interval
    THEN api_clients[c] + min_request_interval
    ELSE clock

\* get_product_info, lines 101-128: the wait, then the signed POST
SendRequest(c) ==
    /\ api_clients[c] # None
    /\ _rate_limit(c) <= MaxClock
    /\ clock' = _rate_limit(c)
    /\ api_clients' = [api_clients EXCEPT ![c] = clock']
    /\ outbound' = IF Len(outbound) < 2 THEN Append(outbound, clock')
                   ELSE <<outbound[2], clock'>>
    /\ UNCHANGED <<settings, dbvars, _product_index, job, running, visited, price_text,
                   extracted, signing, fetched>>

\* time passes
Tick ==
    /\ clock < MaxClock
    /\ clock' = clock + 1
    /\ UNCHANGED <<settings, dbvars, _product_index, job, running, visited, price_text,
                   extracted, signing, api_clients, outbound, fetched>>

\* ---- bot/handlers.py ----
\* What lines 348-396 of handle_amazon_link leave in product_title / product_price.
\* The scraper returns a snapshot only with a price and the handler substitutes a
\* placeholder title when it returns None; the API client returns None, or a snapshot
\* whose price may be missing, and raises ValueError without credentials, upon which
\* the handler falls back to the scraper.  Every snapshot carries a title.
ScrapedLink ==
    {[title |-> TRUE, price |-> None]} \cup [title : {TRUE}, price : Prices]

ApiLink ==
    {[title |-> FALSE, price |-> None]} \cup [title : {TRUE}, price : OptPrices]

LinkInfo ==
    IF settings.ENABLE_PA_API /\ settings.credentials THEN ApiLink ELSE ScrapedLink

\* lines 398-419: create or update the product
UpsertProduct(asin, r) ==
    LET pid == FindProduct(asin) IN
    IF pid # 0
    THEN [products EXCEPT
            ![pid].title = IF ~@ /\ r.title THEN TRUE ELSE @,
            ![pid].url = TRUE,
            ![pid].initial_price =
                IF Truthy(r.price) /\ ~Truthy(@) THEN r.price ELSE @]
    ELSE Append(products, NewProduct(asin, r.title, r.price, None))

\* lines 476-483: a row is added whenever the submitted link came with a price
AddHistoryRow(pid, r) ==
    IF Truthy(r.price)
    THEN [price_history EXCEPT ![pid] = Append(@, r.price)]
    ELSE price_history

process_referralFlatLimit(usrs, referrer_id) ==
    LET referral_count == usrs[referrer_id].referral_count + 1 IN
    [usrs EXCEPT ![referrer_id] =
        [@ EXCEPT !.referral_count = referral_count,
                  !.is_vip = @ \/ referral_count >= VipReferrals,
                  !.product_limit =
                      IF referral_count >= VipReferrals THEN VipProductLimit ELSE @]]

\* lines 93-116 of process_referral, up to its commit
process_referral(usrs, referrer_id) ==
    LET referral_count == usrs[referrer_id].referral_count + 1 IN
    [usrs EXCEPT ![referrer_id] =
        [@ EXCEPT !.referral_count = referral_count,
                  !.is_vip = @ \/ referral_count >= VipReferrals,
                  !.product_limit =
                      IF referral_count = VipReferrals THEN VipProductLimit
                      ELSE IF referral_count > VipReferrals
                      THEN VipProductLimit + (referral_count - VipReferrals)
                      ELSE @]]

\* the referral counter of the model stops at MaxReferrals
MayRefer(referrer_id) ==
    referrer_id # None => users[referrer_id].referral_count < MaxReferrals

\* lines 171-225: /start with the referral parameter ref (None: no parameter); every
\* subscriber of the model has a users row
start_command(u, ref) ==
    /\ running = 0
    /\ LET referrer_id == IF ref = u THEN None ELSE ref
           mine == IF referrer_id # None /\ users[u].referrer_id = None
                   THEN referrer_id ELSE users[u].referrer_id
           usrs == [users EXCEPT ![u].referrer_id = mine]
       IN IF referrer_id # None /\ mine = referrer_id
          THEN /\ MayRefer(referrer_id)
               /\ users' = process_referral(usrs, referrer_id)
          ELSE users' = usrs
    /\ UNCHANGED <<envvars, products, user_products, price_history, _product_index, job,
                   running>>
    /\ VisitedAfterDbChange

AtLimitOffByOne(u) == WatchCount(u) > users[u].product_limit

\* lines 438-443
AtLimit(u) == WatchCount(u) >= users[u].product_limit

handle_amazon_linkNoWatchTest(u, asin, r) ==
    /\ running = 0
    /\ r \in LinkInfo
    /\ LET pid0 == FindProduct(asin)
           pid == IF pid0 # 0 THEN pid0 ELSE Len(products) + 1
       IN /\ products' = UpsertProduct(asin, r)
          /\ IF AtLimit(u)
             THEN UNCHANGED <<users, user_products, price_history>>
             ELSE /\ Truthy(r.price) => Len(price_history[pid]) < MaxRows
                  /\ user_products' = Append(user_products, [user_id |-> u, product_id |-> pid])
                  /\ price_history' = AddHistoryRow(pid, r)
                  /\ IF WatchCount(u) = 0 /\ users[u].referrer_id # None
                     THEN /\ MayRefer(users[u].referrer_id)
                          /\ users' = process_referral(users, users[u].referrer_id)
                     ELSE UNCHANGED users
    /\ UNCHANGED <<envvars, _product_index, job, running>>
    /\ VisitedAfterDbChange

\* lines 320-511: the product is created or updated (lines 398-419); a subscriber who
\* watches it already (lines 421-436) or is at the limit (lines 438-461) gets a reply
\* only; else the Watch and, with a price, the observation row are added and
\* committed (lines 469-485) and a first product credits the referrer (line 488)
handle_amazon_link(u, asin, r) ==
    /\ running = 0
    /\ r \in LinkInfo
    /\ LET pid0 == FindProduct(asin)
           pid == IF pid0 # 0 THEN pid0 ELSE Len(products) + 1
       IN /\ products' = UpsertProduct(asin, r)
          /\ IF WatchRows(u, pid) # {} \/ AtLimit(u)
             THEN UNCHANGED <<users, user_products, price_history>>
             ELSE /\ Truthy(r.price) => Len(price_history[pid]) < MaxRows
                  /\ user_products' = Append(user_products, [user_id |-> u, product_id |-> pid])
                  /\ price_history' = AddHistoryRow(pid, r)
                  /\ IF WatchCount(u) = 0 /\ users[u].referrer_id # None
                     THEN /\ MayRefer(users[u].referrer_id)
                          /\ users' = process_referral(users, users[u].referrer_id)
                     ELSE UNCHANGED users
    /\ UNCHANGED <<envvars, _product_index, job, running>>
    /\ VisitedAfterDbChange

\* lines 294-317
remove_command(u, asin) ==
    /\ running = 0
    /\ LET pid == FindProduct(asin) IN
          /\ pid # 0
          /\ WatchRows(u, pid) # {}
          /\ user_products' =
                RemoveAt(user_products, CHOOSE k \in WatchRows(u, pid) :
                                            \A j \in WatchRows(u, pid) : k <= j)
    /\ UNCHANGED <<envvars, users, products, price_history, _product_index, job,
                   running>>
    /\ VisitedAfterDbChange

handle_callback_queryRemovesEveryWatcher(u, asin) ==
    /\ running = 0
    /\ LET pid == FindProduct(asin) IN
          /\ pid # 0
          /\ WatchRows(u, pid) # {}
          /\ user_products' = SelectSeq(user_products, LAMBDA up : up.product_id # pid)
    /\ UNCHANGED <<envvars, users, products, price_history, _product_index, job,
                   running>>
    /\ VisitedAfterDbChange

\* lines 535-557: the confirm_remove_<asin> callback deletes the Watch row of the
\* user who pressed the button and commits; without a product or a Watch it only
\* edits the message
handle_callback_query(u, asin) ==
    /\ running = 0
    /\ LET pid == FindProduct(asin) IN
          /\ pid # 0
          /\ WatchRows(u, pid) # {}
          /\ user_products' =
                RemoveAt(user_products, CHOOSE k \in WatchRows(u, pid) :
                                            \A j \in WatchRows(u, pid) : k <= j)
    /\ UNCHANGED <<envvars, users, products, price_history, _product_index, job,
                   running>>
    /\ VisitedAfterDbChange

\* ---- scheduler/price_checker.py ----
\* The locals of one job invocation and of the check_single_product call it is in;
\* start is the position the cursor gives the invocation for its first item.
IdleJob ==
    [pc |-> "idle", tier |-> "vip", method |-> "Scraping", db_open |-> FALSE,
     products |-> <<>>, products_to_check |-> 0, checked_count |-> 0,
     cur |-> 0, outcome |-> "none", current_price |-> None, previous_price |-> None,
     initial_read |-> None, price_dropped |-> FALSE, comparison_price |-> None,
     broadcast |-> "no", user_products |-> <<>>, todo |-> <<>>,
     attempted |-> {}, delivered |-> {}, revisit |-> FALSE, start |-> 0,
     seen |-> {}, repeated |-> FALSE,
     price_stats |-> [computed |-> FALSE, is_historical_min |-> FALSE,
                      days_since_lowest |-> None]]

\* the fields of the check_single_product call, cleared when the call is over
NoItem ==
    [cur |-> 0, outcome |-> "none", current_price |-> None, previous_price |-> None,
     initial_read |-> None, price_dropped |-> FALSE, comparison_price |-> None,
     broadcast |-> "no", user_products |-> <<>>, todo |-> <<>>,
     attempted |-> {}, delivered |-> {}, revisit |-> FALSE, repeated |-> FALSE,
     price_stats |-> [computed |-> FALSE, is_historical_min |-> FALSE,
                      days_since_lowest |-> None]]

WithItem(j, item) == [f \in DOMAIN j |-> IF f \in DOMAIN item THEN item[f] ELSE j[f]]

\* lines 283-294 / 356-367: AmazonAPIClient() raises only when ENABLE_PA_API is false
Method == IF settings.ENABLE_PA_API THEN "PA-API" ELSE "Scraping"

\* lines 309-312 / 382-385
MaxProducts(t) == IF t = "vip" THEN max_products_per_minute ELSE max_products_per_cycle

ProductsToCheckIgnoresPopulation(prods, t) == MaxProducts(t)

\* lines 312 / 385
ProductsToCheck(prods, t) == Min(Len(prods), MaxProducts(t))

\* price_fetcher.get_product_info(product.asin): the API client raises ValueError
\* without credentials, returns None, or a snapshot whose price may be None; the
\* scraper returns None or a snapshot with a price.  Every snapshot carries a title.
FetchResults(method) ==
    IF method = "PA-API"
    THEN IF settings.credentials
         THEN {[kind |-> "none", title |-> FALSE, price |-> None]}
              \cup [kind : {"info"}, title : {TRUE}, price : OptPrices]
         ELSE {[kind |-> "raise", title |-> FALSE, price |-> None]}
    ELSE {[kind |-> "none", title |-> FALSE, price |-> None]}
         \cup [kind : {"info"}, title : {TRUE}, price : Prices]

\* line 82-83: product.initial_price as the rest of the call sees it
InitialInMemory(initial_read, current) ==
    IF ~Truthy(initial_read) THEN current ELSE initial_read

\* lines 86-115
PriceDropped(previous, current, target, initial) ==
    IF Truthy(previous)
    THEN /\ current < previous
         /\ \/ Truthy(target) /\ current < target
            \/ Truthy(initial) /\ current < initial
    ELSE Truthy(target) /\ current < target

ComparisonPrice(previous, current, target, initial) ==
    IF ~PriceDropped(previous, current, target, initial) THEN None
    ELSE IF Truthy(previous) THEN previous ELSE initial

\* lines 123-128, for a settings object that defines the two attributes
ShouldBroadcast(previous, current, initial) ==
    /\ settings.channel = "set"
    /\ Truthy(previous)
    /\ current < previous
    /\ LET reference_price == IF Truthy(initial) THEN initial ELSE previous IN
          /\ reference_price > 0
          /\ (reference_price - current) * 100
                >= settings.CHANNEL_DEAL_THRESHOLD * reference_price

\* lines 47-53
UpdateTitleUrl(pid, r) ==
    [products EXCEPT ![pid].title = IF r.title /\ ~@ THEN TRUE ELSE @,
                     ![pid].url = TRUE]

UpdateHistoryOldestRow(pid, current) ==
    IF price_history[pid] # <<>>
    THEN [price_history EXCEPT ![pid][1] = current]
    ELSE [price_history EXCEPT ![pid] = <<current>>]

\* lines 64-78
UpdateHistory(pid, current) ==
    IF price_history[pid] # <<>>
    THEN [price_history EXCEPT ![pid][Len(price_history[pid])] = current]
    ELSE [price_history EXCEPT ![pid] = <<current>>]

\* the rotation-round bookkeeping of one check by tier t's job
IsRevisit(j, pid) ==
    /\ j.products = Population(j.tier)
    /\ pid \in visited[j.tier]

VisitedAfterCheck(j, pid) ==
    visited' = [visited EXCEPT ![j.tier] =
                  IF j.products # Population(j.tier) THEN {}
                  ELSE IF pid \in @ THEN @
                  ELSE IF @ \cup {pid} = {j.products[k] : k \in 1..Len(j.products)} THEN {}
                  ELSE @ \cup {pid}]

\* line 277 / 350 and the await of bot.get_me(); the scheduler starts an invocation
\* of a job only while fewer than max_instances of it are running (main.py)
StartJob(i, t) ==
    /\ running = 0
    /\ job[i].pc = "idle"
    /\ Cardinality({k \in Inst : job[k].pc # "idle" /\ job[k].tier = t}) < max_instances
    /\ job' = [job EXCEPT ![i] = [IdleJob EXCEPT !.pc = "get_me", !.tier = t,
                                                  !.db_open = TRUE]]
    /\ UNCHANGED <<envvars, dbvars, _product_index, running, visited>>

\* lines 281-315 / 354-388
GetMeReturns(i) ==
    /\ running = 0
    /\ job[i].pc = "get_me"
    /\ LET prods == Population(job[i].tier) IN
         IF prods = <<>>
         THEN /\ job' = [job EXCEPT ![i] = IdleJob]
              /\ UNCHANGED running
         ELSE /\ job' = [job EXCEPT ![i].pc = "select", ![i].method = Method,
                                    ![i].products = prods,
                                    ![i].products_to_check = ProductsToCheck(prods, job[i].tier),
                                    ![i].checked_count = 0,
                                    ![i].start = _product_index % Len(prods)]
              /\ running' = i
    /\ UNCHANGED <<envvars, dbvars, _product_index, visited>>

FetchFailedNoPriceTest(r) == r.kind = "none"

\* lines 36-42: no snapshot, or a snapshot without a price
FetchFailed(r) == r.kind = "none" \/ r.price = None

\* db.commit() at line 80: it succeeds, or the flush of the pending rows raises, or
\* the flush succeeds and the COMMIT itself raises
CommitOutcomes == {"ok", "flush_error", "commit_error"}

OnExceptionFallsBack(j) == [j EXCEPT !.pc = "item_done", !.method = "Scraping"]

\* lines 260-262: what check_single_product raises is caught; the handler formats
\* product.asin into the log line and then rolls back, and the loop of the job goes
\* on with the next item
OnException(j) == [j EXCEPT !.pc = "item_done"]

\* lines 260-262 after a flush that raised: the session has rolled its transaction
\* back and expired every object, and it refuses statements until rollback() is
\* called; reading product.asin for the log line (line 261, before the rollback of
\* line 262) needs a SELECT, so the handler itself raises and the exception leaves
\* check_single_product for the handler of the job (lines 331-333)
OnFlushError(j) == [j EXCEPT !.pc = "job_error"]

SelectedIndexFromStart(n) == 0

\* lines 320 / 393: the position _product_index % len(products)
SelectedIndex(n) == _product_index % n

\* lines 317-323 / 390-396 and check_single_product up to its first await (lines 32-128)
check_single_product(i, r, commit) ==
    /\ running = i
    /\ job[i].pc = "select"
    /\ LET n == Len(job[i].products)
           pid == job[i].products[SelectedIndex(n) + 1]
           j == [job[i] EXCEPT !.seen = @ \cup {pid}]
           current == r.price
           previous == LatestPrice(pid)
           initial_read == products[pid].initial_price
           target == products[pid].target_price
           initial == InitialInMemory(initial_read, current)
           dropped == PriceDropped(previous, current, target, initial)
           base == [NoItem EXCEPT !.cur = pid, !.revisit = IsRevisit(j, pid),
                                  !.repeated = pid \in job[i].seen,
                                  !.current_price = current]
           item == [base EXCEPT !.previous_price = previous,
                                !.initial_read = initial_read,
                                !.price_dropped = dropped,
                                !.comparison_price =
                                    ComparisonPrice(previous, current, target, initial)]
       IN /\ _product_index' = (_product_index + 1) % n
          /\ VisitedAfterCheck(j, pid)
          /\ CASE r.kind = "raise" ->
                    /\ job' = [job EXCEPT ![i] =
                                 WithItem(OnException(j), [base EXCEPT !.outcome = "fetch_error"])]
                    /\ UNCHANGED <<dbvars, running>>
               [] r.kind # "raise" /\ FetchFailed(r) ->
                    /\ job' = [job EXCEPT ![i] =
                                 WithItem([j EXCEPT !.pc = "item_done"],
                                          [base EXCEPT !.outcome = "no_price"])]
                    /\ UNCHANGED <<dbvars, running>>
               [] r.kind # "raise" /\ ~FetchFailed(r) /\ commit = "commit_error" ->
                    /\ job' = [job EXCEPT ![i] =
                                 WithItem(OnException(j), [base EXCEPT !.outcome = "commit_error"])]
                    /\ UNCHANGED <<dbvars, running>>
               [] r.kind # "raise" /\ ~FetchFailed(r) /\ commit = "flush_error" ->
                    /\ job' = [job EXCEPT ![i] =
                                 WithItem(OnFlushError(j), [base EXCEPT !.outcome = "flush_error"])]
                    /\ UNCHANGED <<dbvars, running>>
               [] OTHER ->
                    /\ products' = UpdateTitleUrl(pid, r)
                    /\ price_history' = UpdateHistory(pid, current)
                    /\ UNCHANGED <<users, user_products>>
                    /\ IF settings.channel = "missing"
                       THEN /\ job' = [job EXCEPT ![i] =
                                         WithItem(OnException(j),
                                                  [item EXCEPT !.outcome = "config_error"])]
                            /\ UNCHANGED running
                       ELSE IF ShouldBroadcast(previous, current, initial)
                       THEN /\ job' = [job EXCEPT ![i] =
                                         WithItem([j EXCEPT !.pc = "await_channel"],
                                                  [item EXCEPT !.outcome = "stored"])]
                            /\ running' = 0
                       ELSE /\ job' = [job EXCEPT ![i] =
                                         WithItem([j EXCEPT !.pc = "stats"],
                                                  [item EXCEPT !.outcome = "stored"])]
                            /\ UNCHANGED running

\* the check of one item with a result drawn from those its source can return
CheckProduct(i, r, commit) ==
    /\ running = i
    /\ job[i].pc = "select"
    /\ r \in FetchResults(job[i].method)
    /\ check_single_product(i, r, commit)
    /\ UNCHANGED envvars

\* line 257: the commit that writes the initial_price assigned at line 83
CommitInitial(j) ==
    IF ~Truthy(j.initial_read)
    THEN [products EXCEPT ![j.cur].initial_price = j.current_price]
    ELSE products

\* lines 211-213: the users watching the product, in row order
Watchers(pid) ==
    LET rows == SelectSeq(user_products, LAMBDA up : up.product_id = pid)
    IN [k \in 1..Len(rows) |-> rows[k].user_id]

\* lines 142-150: the channel send returns or raises; the failure is logged only
BroadcastReturns(i, ok) ==
    /\ running = 0
    /\ job[i].pc = "await_channel"
    /\ job' = [job EXCEPT ![i].pc = "stats",
                          ![i].broadcast = IF ok THEN "sent" ELSE "failed"]
    /\ running' = i
    /\ UNCHANGED <<envvars, dbvars, _product_index, visited>>

\* line 179: func.min over every row of the product
AllTimeMin(rows) ==
    CHOOSE m \in {rows[k] : k \in 1..Len(rows)} :
        \A k \in 1..Len(rows) : m <= rows[k]

IsHistoricalMinStrictlyBelow(current_price, all_time_min) == current_price < all_time_min

\* lines 183-185
IsHistoricalMin(current_price, all_time_min) == current_price <= all_time_min

\* (datetime.utcnow() - checked_at).days, line 205: no day passes in the model
ElapsedDays == 0

\* lines 156-162; computed records that the block of lines 164-206 ran
NoStats == [computed |-> FALSE, is_historical_min |-> FALSE, days_since_lowest |-> None]

\* lines 164-206, for the rows the session reads at that moment.  The row the check
\* stored at line 80 is inside the window of 180 days, so price_history_all is empty
\* only if the rows are gone.  aware: checked_at comes back with a time zone
\* (DateTime(timezone=True) on PostgreSQL) and line 205, which subtracts it from the
\* naive utcnow(), raises TypeError; days_since_lowest then stays None.
PriceStats(rows, current_price, aware) ==
    IF rows = <<>> THEN NoStats
    ELSE LET is_historical_min == IsHistoricalMin(current_price, AllTimeMin(rows)) IN
         [computed |-> TRUE,
          is_historical_min |-> is_historical_min,
          days_since_lowest |-> IF is_historical_min \/ aware THEN None ELSE ElapsedDays]

\* bot/messages.py:146-147, called at line 234: price_drop / old_price raises
\* ZeroDivisionError for an old price of 0.0; lines 253-255 catch it for each watcher,
\* so no send_message is awaited
MessageRaises(old_price) == old_price = 0

\* lines 152-224, and line 257 when there is nobody to notify or no message can be
\* built; the TypeError of line 205 is caught at line 260
StatsAndWatchers(i, aware) ==
    /\ running = i
    /\ job[i].pc = "stats"
    /\ LET j == job[i]
           ups == Watchers(j.cur)
           price_stats == IF j.price_dropped
                          THEN PriceStats(price_history[j.cur], j.current_price, aware)
                          ELSE NoStats
       IN IF price_stats.computed /\ ~price_stats.is_historical_min /\ aware
          THEN /\ job' = [job EXCEPT ![i] = [OnException(j) EXCEPT
                                                !.outcome = "stats_error",
                                                !.price_stats = price_stats]]
               /\ UNCHANGED <<products, running>>
          ELSE IF j.price_dropped /\ ups # <<>> /\ ~MessageRaises(j.comparison_price)
          THEN /\ job' = [job EXCEPT ![i].pc = "await_user",
                                     ![i].price_stats = price_stats,
                                     ![i].user_products = ups, ![i].todo = ups]
               /\ running' = 0
               /\ UNCHANGED products
          ELSE /\ job' = [job EXCEPT ![i].pc = "item_done", ![i].price_stats = price_stats]
               /\ products' = CommitInitial(j)
               /\ UNCHANGED running
    /\ UNCHANGED <<envvars, users, user_products, price_history, _product_index, visited>>

RemainingAfterSendAborts(todo, ok) == IF ok THEN Tail(todo) ELSE <<>>

\* lines 253-255: a send_message that raises is logged and the loop continues
RemainingAfterSend(todo, ok) == Tail(todo)

\* lines 224-257: one send_message returns or raises; after the last watcher the
\* call commits
SendReturns(i, ok) ==
    /\ running = 0
    /\ job[i].pc = "await_user"
    /\ LET j == job[i]
           u == Head(j.todo)
           rest == RemainingAfterSend(j.todo, ok)
           last == rest = <<>>
       IN /\ job' = [job EXCEPT ![i].todo = rest,
                                ![i].attempted = @ \cup {u},
                                ![i].delivered = IF ok THEN @ \cup {u} ELSE @,
                                ![i].pc = IF last THEN "item_done" ELSE "await_user"]
          /\ products' = IF last THEN CommitInitial(j) ELSE products
          /\ running' = IF last THEN i ELSE 0
    /\ UNCHANGED <<envvars, users, user_products, price_history, _product_index, visited>>

\* lines 324-330 / 397-403 and the finally clause
ItemDone(i) ==
    /\ running = i
    /\ job[i].pc = "item_done"
    /\ LET j == job[i] IN
         IF j.checked_count + 1 < j.products_to_check
         THEN job' = [job EXCEPT ![i] =
                        WithItem([j EXCEPT !.pc = "sleep", !.checked_count = @ + 1], NoItem)]
         ELSE job' = [job EXCEPT ![i] = IdleJob]
    /\ running' = 0
    /\ UNCHANGED <<envvars, dbvars, _product_index, visited>>

JobFailsLosesBatch(i) ==
    /\ running = i
    /\ job[i].pc = "job_error"
    /\ job' = [job EXCEPT ![i] = IdleJob]
    /\ running' = 0
    /\ price_history' =
          [pid \in DOMAIN price_history |->
              IF \E k \in 1..Len(job[i].products) : job[i].products[k] = pid
              THEN <<>> ELSE price_history[pid]]
    /\ UNCHANGED <<envvars, users, products, user_products, _product_index, visited>>

\* lines 331-336 / 404-409: an exception that left check_single_product ends the
\* invocation: it is logged, the session rolled back and closed
JobFails(i) ==
    /\ running = i
    /\ job[i].pc = "job_error"
    /\ job' = [job EXCEPT ![i] = IdleJob]
    /\ running' = 0
    /\ UNCHANGED <<envvars, dbvars, _product_index, visited>>

\* line 328 / 401: asyncio.sleep(0.1) is over
Wake(i) ==
    /\ running = 0
    /\ job[i].pc = "sleep"
    /\ job' = [job EXCEPT ![i].pc = "select"]
    /\ running' = i
    /\ UNCHANGED <<envvars, dbvars, _product_index, visited>>

\* The database holds the two subscribers (one VIP, one not) and either no product or
\* one product, which nobody watches yet and which has a target price: no code path
\* writes target_price, so a target is part of the stored state the program starts in.
\* The price source is the API client, with credentials (its outcomes include those
\* of the scraper) or without (the handler then falls back to the scraper); the
\* channel attributes are missing, as in config/settings.py, or defined and set.
Init ==
    /\ settings \in {c \in SettingsChoices : c.ENABLE_PA_API /\ c.channel # "unset"}
    /\ users = [u \in Users |-> NewUser(u = VipUser)]
    /\ products \in {<<>>} \cup {<<NewProduct(1, FALSE, None, tp)>> : tp \in TargetChoices}
    /\ user_products = <<>>
    /\ price_history = [pid \in Asins |-> <<>>]
    /\ _product_index = 0
    /\ job = [i \in Inst |-> IdleJob]
    /\ running = 0
    /\ visited = [t \in Tiers |-> {}]
    /\ NoCall

\* Spec: one product and one job invocation at a time, every price.  The budget of
\* an invocation is then one item, so no invocation reaches the pacing sleep (Wake).
Next ==
    \/ \E u \in Users, asin \in DetAsins, r \in ApiLink \cup ScrapedLink :
          handle_amazon_link(u, asin, r)
    \/ \E u \in Users, asin \in DetAsins : remove_command(u, asin)
    \/ \E i \in DetInst, t \in Tiers : StartJob(i, t)
    \/ \E i \in DetInst : GetMeReturns(i)
    \/ \E i \in DetInst, commit \in CommitOutcomes :
          \E r \in FetchResults(job[i].method) : CheckProduct(i, r, commit)
    \/ \E i \in DetInst : JobFails(i)
    \/ \E i \in DetInst, ok \in BOOLEAN : BroadcastReturns(i, ok)
    \/ \E i \in DetInst, aware \in BOOLEAN : StatsAndWatchers(i, aware)
    \/ \E i \in DetInst, ok \in BOOLEAN : SendReturns(i, ok)
    \/ \E i \in DetInst : ItemDone(i)

Spec == Init /\ [][Next]_vars

\* SpecChannel: as Spec, with a Settings class that defines the channel attributes
\* and sets the channel; the threshold is a percentage, or 0 (every drop is a deal)
InitChannel ==
    /\ settings \in {[c EXCEPT !.CHANNEL_DEAL_THRESHOLD = t] :
                       c \in {d \in SettingsChoices : d.ENABLE_PA_API /\ d.channel = "set"},
                       t \in ThresholdChoices \cup {0}}
    /\ users = [u \in Users |-> NewUser(u = VipUser)]
    /\ products \in {<<>>} \cup {<<NewProduct(1, FALSE, None, tp)>> : tp \in TargetChoices}
    /\ user_products = <<>>
    /\ price_history = [pid \in Asins |-> <<>>]
    /\ _product_index = 0
    /\ job = [i \in Inst |-> IdleJob]
    /\ running = 0
    /\ visited = [t \in Tiers |-> {}]
    /\ NoCall

SpecChannel == InitChannel /\ [][Next]_vars

\* SpecStats: the product exists with a target price; both subscribers submit its
\* link, which stores an observation each time, and the jobs check it.  One Settings
\* object: the API client with its credentials, the channel set
InitStats ==
    /\ settings \in {c \in SettingsChoices :
                       c.ENABLE_PA_API /\ c.credentials /\ c.channel = "set"}
    /\ users = [u \in Users |-> NewUser(u = VipUser)]
    /\ products \in {<<NewProduct(1, TRUE, None, tp)>> : tp \in TargetChoices}
    /\ user_products = <<>>
    /\ price_history = [pid \in Asins |-> <<>>]
    /\ _product_index = 0
    /\ job = [i \in Inst |-> IdleJob]
    /\ running = 0
    /\ visited = [t \in Tiers |-> {}]
    /\ NoCall

NextStats ==
    \/ \E u \in Users, asin \in DetAsins, r \in ApiLink :
          r.title /\ r.price # None /\ handle_amazon_link(u, asin, r)
    \/ \E i \in DetInst : StartJob(i, "vip")
    \/ \E i \in DetInst : GetMeReturns(i)
    \/ \E i \in DetInst, commit \in CommitOutcomes :
          \E r \in FetchResults(job[i].method) : CheckProduct(i, r, commit)
    \/ \E i \in DetInst : JobFails(i)
    \/ \E i \in DetInst, ok \in BOOLEAN : BroadcastReturns(i, ok)
    \/ \E i \in DetInst, aware \in BOOLEAN : StatsAndWatchers(i, aware)
    \/ \E i \in DetInst, ok \in BOOLEAN : SendReturns(i, ok)
    \/ \E i \in DetInst : ItemDone(i)

SpecStats == InitStats /\ [][NextStats]_vars

\* SpecLimit: the handlers alone.  Both subscribers start as new users; the first
\* one submits and removes links of NumLimitAsins products, the second one is the
\* source of the referral events: it opens referral links and adds and removes its
\* first product.  The links come without a title and a price.
InitLimit ==
    /\ settings \in {c \in SettingsChoices :
                       c.ENABLE_PA_API /\ c.credentials /\ c.channel = "missing"}
    /\ users = [u \in Users |-> NewUser(FALSE)]
    /\ products = [pid \in 1..NumLimitAsins |-> NewProduct(pid, FALSE, None, None)]
    /\ user_products = <<>>
    /\ price_history = [pid \in 1..NumLimitAsins |-> <<>>]
    /\ _product_index = 0
    /\ job = [i \in Inst |-> IdleJob]
    /\ running = 0
    /\ visited = [t \in Tiers |-> {}]
    /\ NoCall

NextLimit ==
    \/ \E asin \in 1..NumLimitAsins, r \in ApiLink :
          ~r.title /\ handle_amazon_link(VipUser, asin, r)
    \/ \E asin \in DetAsins, r \in ApiLink :
          ~r.title /\ handle_amazon_link(RegularUser, asin, r) /\ (\A v \in Users : users'[v].referral_count <= LimitReferrals)
    \/ \E asin \in 1..NumLimitAsins : remove_command(VipUser, asin)
    \/ \E asin \in DetAsins : remove_command(RegularUser, asin)
    \/ \E ref \in Users \cup {None} :
          start_command(RegularUser, ref) /\ (\A v \in Users : users'[v].referral_count <= LimitReferrals)

SpecLimit == InitLimit /\ [][NextLimit]_vars

\* SpecReferral: the referral events alone.  Both subscribers start as new users;
\* each opens referral links and adds and removes its first product
NextReferral ==
    \/ \E u \in Users, ref \in Users \cup {None} : start_command(u, ref)
    \/ \E u \in Users, asin \in DetAsins, r \in ApiLink :
          ~r.title /\ handle_amazon_link(u, asin, r)
    \/ \E u \in Users, asin \in DetAsins : remove_command(u, asin)

SpecReferral == InitLimit /\ [][NextReferral]_vars

\* SpecParse: calls of the scraper's price-text normalizer; the bot and the jobs are
\* at rest
InitParse ==
    /\ settings \in {c \in SettingsChoices :
                       ~c.ENABLE_PA_API /\ c.channel = "missing"}
    /\ users = [u \in Users |-> NewUser(u = VipUser)]
    /\ products = <<>>
    /\ user_products = <<>>
    /\ price_history = [pid \in Asins |-> <<>>]
    /\ _product_index = 0
    /\ job = [i \in Inst |-> IdleJob]
    /\ running = 0
    /\ visited = [t \in Tiers |-> {}]
    /\ price_text \in PriceTexts
    /\ extracted = Pending
    /\ signing = <<>>
    /\ clock = 0 /\ api_clients = <<>> /\ outbound = <<>>
    /\ fetched = NoFetch

NextParse == ExtractPrice

SpecParse == InitParse /\ [][NextParse]_vars

\* SpecSign: two runs of the signing operation, each by a client of its own and with
\* a payload and a timestamp of its own; the bot and the jobs are at rest
InitSign ==
    /\ settings \in {c \in SettingsChoices :
                       c.ENABLE_PA_API /\ c.credentials /\ c.channel = "missing"}
    /\ users = [u \in Users |-> NewUser(u = VipUser)]
    /\ products = <<>>
    /\ user_products = <<>>
    /\ price_history = [pid \in Asins |-> <<>>]
    /\ _product_index = 0
    /\ job = [i \in Inst |-> IdleJob]
    /\ running = 0
    /\ visited = [t \in Tiers |-> {}]
    /\ price_text = <<>>
    /\ extracted = Pending
    /\ signing \in [Runs -> [self : ClientChoices, payload : PayloadChoices,
                              timestamp : TimestampChoices, done : {FALSE},
                              headers : {NoHeaders}]]
    /\ clock = 0 /\ api_clients = <<>> /\ outbound = <<>>
    /\ fetched = NoFetch

NextSign == \E r \in Runs : SignRequest(r)

SpecSign == InitSign /\ [][NextSign]_vars

\* SpecRate: the clients of the signed API that the job invocations and the link
\* handler construct, and the requests they send; the tables are at rest
InitRate ==
    /\ settings \in {c \in SettingsChoices :
                       c.ENABLE_PA_API /\ c.credentials /\ c.channel = "missing"}
    /\ users = [u \in Users |-> NewUser(u = VipUser)]
    /\ products = <<>>
    /\ user_products = <<>>
    /\ price_history = [pid \in Asins |-> <<>>]
    /\ _product_index = 0
    /\ job = [i \in Inst |-> IdleJob]
    /\ running = 0
    /\ visited = [t \in Tiers |-> {}]
    /\ price_text = <<>> /\ extracted = Pending /\ signing = <<>>
    /\ clock = StartTime
    /\ api_clients = [c \in Clients |-> None]
    /\ outbound = <<>>
    /\ fetched = NoFetch

NextRate ==
    \/ \E c \in Clients : NewClient(c)
    \/ \E c \in Clients : SendRequest(c)
    \/ \E c \in Clients : DropClient(c)
    \/ Tick

SpecRate == InitRate /\ [][NextRate]_vars

\* SpecBatch and SpecRot: every product is in the database and the watch table is
\* fixed (the VIP subscriber watches the first n products, the other one the first m),
\* so the populations of the two tiers do not change.  With one price no check is a
\* drop, so no delivery is awaited here.
WatchedUpTo(n, m) ==
    [k \in 1..(n + m) |->
        IF k <= n THEN [user_id |-> VipUser, product_id |-> k]
        ELSE [user_id |-> RegularUser, product_id |-> k - n]]

WatchTables == {WatchedUpTo(n, m) : n, m \in 0..NumAsins} \ {<<>>}

InitFixed ==
    /\ users = [u \in Users |-> NewUser(u = VipUser)]
    /\ products = [pid \in Asins |-> NewProduct(pid, FALSE, None, None)]
    /\ user_products \in WatchTables
    /\ price_history = [pid \in Asins |-> <<>>]
    /\ _product_index = 0
    /\ job = [i \in Inst |-> IdleJob]
    /\ running = 0
    /\ visited = [t \in Tiers |-> {}]
    /\ NoCall

\* SpecBatch: one invocation at a time, of either job, with either price source
InitBatch ==
    /\ settings \in {c \in SettingsChoices : c.channel # "set"}
    /\ InitFixed

NextBatch ==
    \/ \E i \in DetInst, t \in Tiers : StartJob(i, t)
    \/ \E i \in DetInst : GetMeReturns(i)
    \/ \E i \in DetInst, commit \in CommitOutcomes :
          \E r \in FetchResults(job[i].method) :
             r.price \in RotPrices \cup {None} /\ CheckProduct(i, r, commit)
    \/ \E i \in DetInst : JobFails(i)
    \/ \E i \in DetInst, aware \in BOOLEAN : StatsAndWatchers(i, aware)
    \/ \E i \in DetInst : ItemDone(i)
    \/ \E i \in DetInst : Wake(i)

SpecBatch == InitBatch /\ [][NextBatch]_vars

\* SpecWalk: as SpecBatch, with a population of WalkPopulation products, all of them
\* watched by the VIP subscriber alone
InitWalk ==
    /\ settings \in {c \in SettingsChoices : c.channel # "set"}
    /\ users = [u \in Users |-> NewUser(u = VipUser)]
    /\ products = [pid \in 1..WalkPopulation |-> NewProduct(pid, FALSE, None, None)]
    /\ user_products = [k \in 1..WalkPopulation |-> [user_id |-> VipUser, product_id |-> k]]
    /\ price_history = [pid \in 1..WalkPopulation |-> <<>>]
    /\ _product_index = 0
    /\ job = [i \in Inst |-> IdleJob]
    /\ running = 0
    /\ visited = [t \in Tiers |-> {}]
    /\ NoCall

SpecWalk == InitWalk /\ [][NextBatch]_vars

\* SpecResize: as SpecBatch, and between the steps of the jobs the subscribers add
\* and remove watches of the first product (with links that come without a price),
\* so the populations shrink and grow between and during the invocations.  The price source is the API
\* client with credentials, and a Settings class that defines the channel
\* attributes and leaves them unset.
InitResize ==
    /\ settings \in {c \in SettingsChoices :
                       c.ENABLE_PA_API /\ c.credentials /\ c.channel = "unset"}
    /\ InitFixed

NextResize ==
    \/ NextBatch
    \/ \E u \in Users, asin \in DetAsins, r \in ApiLink \cup ScrapedLink :
          r.price = None /\ handle_amazon_link(u, asin, r)
    \/ \E u \in Users, asin \in DetAsins : remove_command(u, asin)

SpecResize == InitResize /\ [][NextResize]_vars

\* SpecRot: invocations of both jobs overlap; the price source is the API client
InitRot ==
    /\ settings \in {c \in SettingsChoices : c.ENABLE_PA_API /\ c.channel # "set"}
    /\ InitFixed

NextRot ==
    \/ \E i \in Inst, t \in Tiers : StartJob(i, t)
    \/ \E i \in Inst : GetMeReturns(i)
    \/ \E i \in Inst, commit \in CommitOutcomes :
          \E r \in FetchResults(job[i].method) :
             r.price \in RotPrices \cup {None} /\ CheckProduct(i, r, commit)
    \/ \E i \in Inst : JobFails(i)
    \/ \E i \in Inst, aware \in BOOLEAN : StatsAndWatchers(i, aware)
    \/ \E i \in Inst : ItemDone(i)
    \/ \E i \in Inst : Wake(i)

SpecRot == InitRot /\ [][NextRot]_vars

\* SpecTiers: one invocation of the VIP job and one of the regular job, interleaved
\* (main.py registers the two jobs separately; each await lets the other advance)
NextTiers ==
    \/ \E i \in Inst, t \in Tiers :
          /\ \A k \in Inst : job[k].pc # "idle" => job[k].tier # t
          /\ StartJob(i, t)
    \/ \E i \in Inst : GetMeReturns(i)
    \/ \E i \in Inst, commit \in CommitOutcomes :
          \E r \in FetchResults(job[i].method) :
             r.price \in RotPrices \cup {None} /\ CheckProduct(i, r, commit)
    \/ \E i \in Inst : JobFails(i)
    \/ \E i \in Inst, aware \in BOOLEAN : StatsAndWatchers(i, aware)
    \/ \E i \in Inst : ItemDone(i)
    \/ \E i \in Inst : Wake(i)

SpecTiers == InitRot /\ [][NextTiers]_vars

\* SpecRepeat: the two jobs alone, one invocation at a time, on one product that
\* both subscribers or one of them watch and that has no observation yet; no link is
\* submitted, so every stored observation is the price of the last successful check
InitRepeat ==
    /\ settings \in {[c EXCEPT !.CHANNEL_DEAL_THRESHOLD = t] :
                       c \in {d \in SettingsChoices : d.ENABLE_PA_API},
                       t \in ThresholdChoices \cup {0}}
    /\ users = [u \in Users |-> NewUser(u = VipUser)]
    /\ products \in {<<NewProduct(1, FALSE, None, tp)>> : tp \in TargetChoices \cup {None}}
    /\ user_products \in {WatchedUpTo(n, m) : n, m \in 0..1} \ {<<>>}
    /\ price_history = [pid \in Asins |-> <<>>]
    /\ _product_index = 0
    /\ job = [i \in Inst |-> IdleJob]
    /\ running = 0
    /\ visited = [t \in Tiers |-> {}]
    /\ NoCall

NextRepeat ==
    \/ \E i \in DetInst, t \in Tiers : StartJob(i, t)
    \/ \E i \in DetInst : GetMeReturns(i)
    \/ \E i \in DetInst, commit \in CommitOutcomes :
          \E r \in FetchResults(job[i].method) : CheckProduct(i, r, commit)
    \/ \E i \in DetInst : JobFails(i)
    \/ \E i \in DetInst, ok \in BOOLEAN : BroadcastReturns(i, ok)
    \/ \E i \in DetInst, aware \in BOOLEAN : StatsAndWatchers(i, aware)
    \/ \E i \in DetInst, ok \in BOOLEAN : SendReturns(i, ok)
    \/ \E i \in DetInst : ItemDone(i)

SpecRepeat == InitRepeat /\ [][NextRepeat]_vars

\* SpecOverlap: as SpecRepeat, with invocations that overlap: while one awaits a
\* delivery another one checks the same product
NextOverlap ==
    \/ \E i \in Inst, t \in Tiers : StartJob(i, t)
    \/ \E i \in Inst : GetMeReturns(i)
    \/ \E i \in Inst, commit \in CommitOutcomes :
          \E r \in FetchResults(job[i].method) : CheckProduct(i, r, commit)
    \/ \E i \in Inst : JobFails(i)
    \/ \E i \in Inst, ok \in BOOLEAN : BroadcastReturns(i, ok)
    \/ \E i \in Inst, aware \in BOOLEAN : StatsAndWatchers(i, aware)
    \/ \E i \in Inst, ok \in BOOLEAN : SendReturns(i, ok)
    \/ \E i \in Inst : ItemDone(i)

SpecOverlap == InitRepeat /\ [][NextOverlap]_vars

TypeOK ==
    /\ settings.CHANNEL_DEAL_THRESHOLD \in Nat
    /\ \E c \in SettingsChoices :
          settings = [c EXCEPT !.CHANNEL_DEAL_THRESHOLD = settings.CHANNEL_DEAL_THRESHOLD]
    /\ running \in Inst \cup {0}
    /\ _product_index \in 0..Len(products)
    /\ \A pid \in 1..Len(products) : Len(price_history[pid]) <= MaxRows

\* ------------------------------------------------------------------------
\* Properties
\* ------------------------------------------------------------------------
Range(seq) == {seq[k] : k \in 1..Len(seq)}

\* the call of check_single_product this invocation is in got past line 84
DetectionRan(j) == j.cur # 0 /\ j.outcome \in {"stored", "config_error"}

TargetOf(j) == products[j.cur].target_price

\* C1: for an item that has a stored observation, a check that fetched a price is a
\* notifiable drop exactly when the price is below the previous observation and
\* below the target price or the initial price, whichever of the two is set.
C1_NotifiableIffBelowPreviousAndThreshold ==
    \A i \in Inst :
        LET j == job[i] IN
        DetectionRan(j) /\ j.previous_price # None =>
            (j.price_dropped <=>
                /\ j.current_price < j.previous_price
                /\ \/ TargetOf(j) # None /\ j.current_price < TargetOf(j)
                   \/ j.initial_read # None /\ j.current_price < j.initial_read)

\* C2: for an item without a stored observation, a check that fetched a price is
\* notifiable exactly when a target is set and the price is below it; without a
\* target and without an initial price, the fetched price is the stored
\* initial_price when the processing of the item has ended.
C2_FirstCheckAgainstTargetOnly ==
    \A i \in Inst :
        LET j == job[i] IN
        DetectionRan(j) /\ j.previous_price = None =>
            /\ j.price_dropped <=> (TargetOf(j) # None /\ j.current_price < TargetOf(j))
            /\ (j.pc = "item_done" /\ TargetOf(j) = None /\ j.initial_read = None)
                   => products[j.cur].initial_price = j.current_price

\* C3: a stored initial_price that is not null keeps its value in every step.
C3_InitialPriceNeverOverwritten ==
    [][\A pid \in 1..Len(products) :
          products[pid].initial_price # None
              => products'[pid].initial_price = products[pid].initial_price]_vars

C5_FailedFetchChangesNothing ==
    [][\A i \in Inst :
          /\ (job[i].pc = "select" /\ job'[i].pc # "select" /\ job'[i].current_price = None)
                => /\ UNCHANGED dbvars
                   /\ job'[i].pc = "item_done"
                   /\ job'[i].attempted = {} /\ job'[i].broadcast = "no"
                   /\ \A t \in Tiers : Population(t)' = Population(t)
          /\ (job[i].pc = "item_done" /\ job[i].current_price = None /\ job'[i] # job[i])
                => /\ UNCHANGED dbvars
                   /\ job'[i].pc \in {"sleep", "idle"}]_vars

C5_Witness ==
    \E i \in Inst :
        LET j == job[i] IN
        /\ j.pc = "item_done"
        /\ j.outcome = "no_price"
        /\ j.current_price = None
        /\ price_history[j.cur] # <<>>
        /\ products[j.cur].initial_price # None
        /\ products[j.cur].title

\* C6: every item has at most one price_history row.
C6_AtMostOneObservationRow ==
    \A pid \in Asins : Len(price_history[pid]) <= 1

\* C7: an invocation does not end while items of its budget remain unprocessed; an
\* item whose processing raised (in the fetch, in the commit or anywhere else) leaves
\* the observations of the other items as they were, and after each item but the last
\* the invocation goes on to the next one.
C7_ErrorDoesNotAbortBatch ==
    [][\A i \in Inst :
          /\ (job[i].pc # "idle" /\ job'[i].pc = "idle")
                => \/ job[i].pc = "get_me"
                   \/ job[i].checked_count + 1 = job[i].products_to_check
          /\ (job[i].pc = "select" /\ job'[i].pc # "select"
                /\ job'[i].outcome \in {"fetch_error", "commit_error", "flush_error",
                                          "config_error"})
                => \A pid \in Asins \ {job'[i].cur} :
                      price_history'[pid] = price_history[pid]
          /\ (job[i].pc = "item_done" /\ job'[i] # job[i]
                /\ job[i].checked_count + 1 < job[i].products_to_check)
                => job'[i].pc = "sleep" /\ job'[i].checked_count = job[i].checked_count + 1]_vars

WatchersAtCheck(j) ==
    IF j.outcome = "stored" /\ j.user_products # <<>>
    THEN Range(j.user_products) ELSE Range(Watchers(j.cur))

\* C9: when the processing of a notifiable drop has ended, the notification has been
\* delivered to every watcher of the item.
C9_EveryWatcherIsNotified ==
    \A i \in Inst :
        LET j == job[i] IN
        (j.pc = "item_done" /\ j.price_dropped) => WatchersAtCheck(j) \subseteq j.delivered

\* C10: with the population of a tier unchanged, the job of the tier checks no item a
\* second time before it has checked every item of the population.
C10_NoRevisitBeforeRoundComplete ==
    \A i \in Inst : ~job[i].revisit

\* C11: an invocation that finds its population empty checks nothing; otherwise its
\* budget is min(population size, cap of its tier), it never starts a check beyond
\* the budget, and when it ends it has performed exactly budget checks.
C11_ExactlyBudgetChecks ==
    [][\A i \in Inst :
          /\ (job[i].pc = "get_me" /\ job'[i].pc # "get_me")
                => IF Population(job[i].tier) = <<>>
                   THEN job'[i].pc = "idle"
                   ELSE /\ job'[i].pc = "select"
                        /\ job'[i].checked_count = 0
                        /\ job'[i].products_to_check =
                              Min(Len(Population(job[i].tier)), MaxProducts(job[i].tier))
          /\ (job[i].pc = "select" /\ job'[i].pc # "select")
                => job[i].checked_count < job[i].products_to_check
          /\ (job[i].pc \notin {"idle", "get_me"} /\ job'[i].pc = "idle")
                => job[i].checked_count + 1 = job[i].products_to_check]_vars

\* the invocation is in its loop over the products of its tier
InLoop(j) == j.pc \notin {"idle", "get_me"}

C13_CursorPersistsAndIndexIsValid ==
    [][/\ (\A i \in Inst : ~(job[i].pc = "select" /\ job'[i].pc # "select"))
              => _product_index' = _product_index
       /\ \A i \in Inst :
             /\ (job[i].pc = "get_me" /\ job'[i].pc = "select")
                   => /\ job'[i].products = Population(job[i].tier)
                      /\ job'[i].products # <<>>
             /\ (job[i].pc = "select" /\ job'[i].pc # "select")
                   => LET n == Len(job[i].products)
                          idx == _product_index % n
                      IN /\ n >= 1
                         /\ idx \in 0..(n - 1)
                         /\ job'[i].cur = job[i].products[idx + 1]
                         /\ _product_index' = (idx + 1) % n]_vars

\* an invocation is about to select its first item, and the cursor it finds is not a
\* position of its population, which has lost its first product since the start
C13_Witness ==
    \E i \in Inst :
        /\ job[i].pc = "select" /\ job[i].checked_count = 0
        /\ job[i].products # <<>>
        /\ _product_index >= Len(job[i].products)
        /\ job[i].products[1] \notin DetAsins

\* C14: no two invocations of the job of one tier are in progress at the same time.
C14_NoOverlapWithinTier ==
    \A i, k \in Inst :
        (i # k /\ job[i].pc # "idle" /\ job[k].pc # "idle") => job[i].tier # job[k].tier

\* C15: an invocation chooses its price source in the step that takes it into its
\* loop, before its first item, and no later step of the invocation changes it, so
\* every item of the invocation is fetched with the same source.
C15_SourceChosenOncePerInvocation ==
    [][\A i \in Inst :
          /\ (job[i].pc = "get_me" /\ job'[i].pc = "select")
                => /\ job'[i].method = (IF settings.ENABLE_PA_API THEN "PA-API" ELSE "Scraping")
                   /\ job'[i].checked_count = 0 /\ job'[i].cur = 0
          /\ (InLoop(job[i]) /\ InLoop(job'[i])) => job'[i].method = job[i].method]_vars

\* an invocation is past its first item, which raised, and is processing its second
C15_Witness ==
    \E i \in Inst :
        /\ job[i].checked_count >= 1 /\ job[i].cur # 0
        /\ job[i].method = "PA-API" /\ ~settings.credentials

\* C16: after the fetch of an item raised the credentials error of the API client,
\* the invocation goes on with the scraper as its price source.
C16_CredentialsErrorFallsBackToScraper ==
    [][\A i \in Inst :
          (job[i].outcome = "fetch_error" /\ InLoop(job'[i]))
              => job'[i].method = "Scraping"]_vars

\* C17: the stored observations of an item change only in the step in which an
\* invocation selects that item, fetches a price for it and commits the update,
\* before it goes on to another item; a step in which the processing of an item
\* fails or the invocation ends changes the stored observations of no item, so the
\* observations committed for the earlier items stay.
C17_EarlierObservationsAreKept ==
    [][\A pid \in 1..Len(products) :
          price_history'[pid] # price_history[pid] =>
              \E i \in Inst :
                  /\ job[i].pc = "select"
                  /\ job'[i].cur = pid
                  /\ job'[i].outcome \in {"stored", "config_error"}
                  /\ price_history'[pid] # <<>>
                  /\ LatestOf(price_history', pid) = job'[i].current_price]_vars

\* the update of the second item of an invocation failed in its flush, which ends the
\* invocation, and the observation committed for the first item is stored
C17_Witness ==
    \E i \in Inst :
        /\ job[i].pc = "job_error" /\ job[i].checked_count >= 1
        /\ \E k \in 1..Len(job[i].products) :
              /\ job[i].products[k] # job[i].cur
              /\ price_history[job[i].products[k]] # <<>>

\* C18: when the processing of an item ends whose fetch returned a price, whose
\* observation was committed and whose initial_price was unset when the check read
\* it, the stored initial_price of the item is the fetched price.
C18_InitialPriceStoredOnFirstFetch ==
    \A i \in Inst :
        LET j == job[i] IN
        (j.pc = "item_done" /\ DetectionRan(j) /\ j.initial_read = None)
            => products[j.cur].initial_price = j.current_price

\* the discount of the check against its reference price reaches the threshold; the
\* reference price is the initial_price the check works with (the stored one, or the
\* fetched price it assigns at line 83 when none is stored) and, when that is not
\* set, the previous observation
DiscountReachesThreshold(j) ==
    LET initial == IF Truthy(j.initial_read) THEN j.initial_read ELSE j.current_price
        reference_price == IF Truthy(initial) THEN initial ELSE j.previous_price
    IN  /\ reference_price > 0
        /\ (reference_price - j.current_price) * 100
              >= settings.CHANNEL_DEAL_THRESHOLD * reference_price

WatchCountIn(ups, u) == Cardinality({k \in 1..Len(ups) : ups[k].user_id = u})

\* C20: after every step the number of Watch rows of each subscriber is at most that
\* subscriber's product_limit, and no step gives a subscriber who is at the limit
\* another Watch row.
C20_WatchCountWithinLimit ==
    [][\A u \in Users :
          /\ WatchCountIn(user_products', u) <= users'[u].product_limit
          /\ WatchCountIn(user_products, u) >= users[u].product_limit
                => WatchCountIn(user_products', u) <= WatchCountIn(user_products, u)]_vars

\* a subscriber whose referrals raised the limit watches as many products as the
\* raised limit allows
C20_Witness ==
    \E u \in Users :
        /\ users[u].referral_count >= VipReferrals
        /\ users[u].product_limit > BaseProductLimit
        /\ WatchCount(u) = users[u].product_limit

\* C21: the normalizer returns 29.99 for "€29,99", 1299.99 for "1.299,99", 1299.99
\* for "1,299.99", 29.99 for "29.99" and 29.00 for "29".
C21_DocumentedPricesAreParsed ==
    extracted # Pending =>
        /\ price_text = <<"€", "2", "9", ",", "9", "9">> => extracted = 2999
        /\ price_text = <<"1", ".", "2", "9", "9", ",", "9", "9">> => extracted = 129999
        /\ price_text = <<"1", ",", "2", "9", "9", ".", "9", "9">> => extracted = 129999
        /\ price_text = <<"2", "9", ".", "9", "9">> => extracted = 2999
        /\ price_text = <<"2", "9">> => extracted = 2900

\* C22: for a text of the form d.ddd the normalizer returns the number with the dot
\* read as thousands grouping: 1234 for "1.234".
C22_DotGroupIsThousands ==
    (extracted # Pending /\ price_text = <<"1", ".", "2", "3", "4">>) => extracted = 123400

C24_EachItemOncePerInvocation ==
    \A i \in Inst :
        LET j == job[i] IN
        (InLoop(j) /\ Len(j.products) <= MaxProducts(j.tier)) =>
            /\ ~j.repeated
            /\ (j.pc = "item_done" /\ j.checked_count + 1 = j.products_to_check) =>
                   j.seen = {j.products[k] : k \in 1..Len(j.products)}

C27_RequestsAtLeastOneIntervalApart ==
    Len(outbound) = 2 => outbound[2] - outbound[1] >= min_request_interval

C30_ReferralCreditedOnce ==
    [][\A v \in Users :
          (/\ user_products' = user_products
           /\ users'[v].referral_count > users[v].referral_count)
          => \E u \in Users :
                /\ users[u].referrer_id = None
                /\ users'[u].referrer_id = v]_vars

\* C31: in every state and after every step, each user is VIP exactly when its
\* referral_count is at least 3, its product_limit is 3 below three referrals and
\* referral_count + 2 from three on, and no step lowers a product_limit.
C31_VipAndLimitFollowReferrals ==
    [][\A u \in Users :
          /\ users[u].is_vip <=> users[u].referral_count >= 3
          /\ users'[u].is_vip <=> users'[u].referral_count >= 3
          /\ users[u].product_limit =
                IF users[u].referral_count < 3 THEN 3 ELSE users[u].referral_count + 2
          /\ users'[u].product_limit =
                IF users'[u].referral_count < 3 THEN 3 ELSE users'[u].referral_count + 2
          /\ users'[u].product_limit >= users[u].product_limit]_vars

\* a user with more than three referrals
C31_Witness ==
    \E u \in Users :
        /\ users[u].referral_count > 3
        /\ users[u].is_vip
        /\ users[u].product_limit = users[u].referral_count + 2

\* ---- the price sources under the jobs ----
\* lines 317-323 / 390-396 with line 34 spelled out: the source of the invocation
\* sends its request, meets resp and returns, and check_single_product goes on with
\* what the source returned
FetchAndCheck(i, resp, commit) ==
    /\ resp \in (IF job[i].method = "PA-API" THEN ApiResponses ELSE ScraperResponses)
    /\ LET call == IF job[i].method = "PA-API"
                   THEN ApiGetProductInfo(resp, settings.credentials)
                   ELSE ScraperGetProductInfo(resp)
       IN /\ fetched' = call
          /\ check_single_product(i, call.result, commit)
    /\ UNCHANGED <<settings, price_text, extracted, signing, clock, api_clients, outbound>>

\* one call of get_product_info of the scraper or of the API client, with the
\* response its request meets
SourceCall(resp) ==
    /\ fetched' = IF resp \in ScraperResponses
                  THEN ScraperGetProductInfo(resp)
                  ELSE ApiGetProductInfo(resp, settings.credentials)
    /\ UNCHANGED <<settings, dbvars, _product_index, job, running, visited, price_text,
                   extracted, signing, clock, api_clients, outbound>>

\* SpecFetch: the two jobs alone, one invocation at a time, on one product that both
\* subscribers or one of them watch; the source is the scraper, or the API client
\* with or without credentials, and every check draws the response its request
\* meets: one with a title, the request answered or refused with an HTTP status
InitFetch ==
    /\ settings \in {c \in SettingsChoices : c.channel = "set"}
    /\ users = [u \in Users |-> NewUser(u = VipUser)]
    /\ products = <<NewProduct(1, FALSE, None, None)>>
    /\ user_products \in {WatchedUpTo(n, m) : n, m \in 0..1} \ {<<>>}
    /\ price_history = [pid \in Asins |-> <<>>]
    /\ _product_index = 0
    /\ job = [i \in Inst |-> IdleJob]
    /\ running = 0
    /\ visited = [t \in Tiers |-> {}]
    /\ NoCall

NextFetch ==
    \/ \E i \in DetInst, t \in Tiers : StartJob(i, t)
    \/ \E i \in DetInst : GetMeReturns(i)
    \/ \E i \in DetInst, commit \in CommitOutcomes :
          \E resp \in ApiResponses \cup ScraperResponses :
             /\ resp.title /\ resp.error \in {"none", "http"}
             /\ FetchAndCheck(i, resp, commit)
    \/ \E i \in DetInst : JobFails(i)
    \/ \E i \in DetInst, ok \in BOOLEAN : BroadcastReturns(i, ok)
    \/ \E i \in DetInst, aware \in BOOLEAN : StatsAndWatchers(i, aware)
    \/ \E i \in DetInst, ok \in BOOLEAN : SendReturns(i, ok)
    \/ \E i \in DetInst : ItemDone(i)

SpecFetch == InitFetch /\ [][NextFetch]_vars

\* SpecSource: the two price sources alone, called with every response
NextSource ==
    \/ \E resp \in ScraperResponses : SourceCall(resp)
    \/ \E resp \in ApiResponses : SourceCall(resp)

SpecSource == InitFetch /\ [][NextSource]_vars

\* C32: a call of the scraper's get_product_info never raises and sends one request;
\* it returns None when the request failed (network or HTTP status), when the page
\* carries a robot-check marker and when the page yields no price, and a snapshot it
\* returns has a price.
C32_ScraperFetchReturnsNoneOrPrice ==
    fetched.source = "Scraping" =>
        /\ ~fetched.raised
        /\ fetched.requests <= 1
        /\ (\/ fetched.response.error \in {"network", "http"}
            \/ fetched.response.captcha
            \/ fetched.response.price = None) => fetched.result.kind = "none"
        /\ fetched.result.kind \in {"none", "info"}
        /\ fetched.result.kind = "info" => fetched.result.price # None

C32_Witness ==
    /\ fetched.source = "Scraping"
    /\ fetched.response.error = "none" /\ ~fetched.response.captcha
    /\ fetched.response.price = None /\ fetched.response.title
    /\ fetched.requests = 1
    /\ fetched.result = NoneResult

\* C33: a response of the signed API whose body has a top-level Errors array makes
\* the client return None, whatever items the body holds, and the check of the item
\* ends as a failed fetch: nothing is stored and nothing is sent.
C33_ErrorsArrayIsFailedFetch ==
    [][\A i \in Inst :
          (/\ running = i /\ job[i].pc = "select" /\ job'[i] # job[i]
           /\ fetched'.source = "PA-API" /\ ~fetched'.raised
           /\ fetched'.response.error = "none"
           /\ fetched'.response.Errors # "absent")
          => /\ fetched'.result.kind = "none"
             /\ job'[i].pc = "item_done"
             /\ job'[i].outcome = "no_price"
             /\ UNCHANGED dbvars]_vars

C33_Witness ==
    /\ fetched.source = "PA-API" /\ ~fetched.raised
    /\ fetched.response.error = "none"
    /\ fetched.response.Errors = "listed"
    /\ fetched.response.Items = "item" /\ fetched.response.price # None
    /\ job[1].pc = "item_done" /\ job[1].outcome = "no_price"

\* ---- the session of a job invocation ----
\* line 280 / 353: the await of bot.get_me() raises.  The call stands between
\* SessionLocal() (line 277 / 350) and the try of line 296 / 369, so the exception
\* leaves the coroutine and neither the except nor the finally clause runs: the
\* invocation is over and its session was not closed
GetMeRaises(i) ==
    /\ running = 0
    /\ job[i].pc = "get_me"
    /\ job' = [job EXCEPT ![i] = [IdleJob EXCEPT !.db_open = job[i].db_open]]
    /\ UNCHANGED <<envvars, dbvars, _product_index, running, visited>>

\* C34: an invocation of a price-check job that is over has closed the session it
\* opened, whichever way it ended: empty population, completion, an exception inside
\* the run, a failure of bot.get_me() or of the construction of the price source.
C34_SessionClosedOnEveryExit ==
    \A i \in Inst : job[i].pc = "idle" => ~job[i].db_open

\* C35: when a job fetches an item, the item is watched at that moment by a subscriber
\* of the job's tier: a VIP subscriber for the fast-tier job, a non-VIP subscriber
\* for the standard-tier job; an item without a watcher is not fetched.
C35_FetchedItemIsWatchedByTier ==
    [][\A i \in Inst :
          (running = i /\ job[i].pc = "select" /\ job'[i].pc # "select")
          => IsWatchedByTier(user_products, users, job'[i].cur, job[i].tier)]_vars

\* ---- the watchlist under submissions and removals ----
\* SpecWatch: the handlers alone.  Both subscribers submit links of every product,
\* with and without a title and a price, and remove watches with /remove and with
\* the confirm-remove button; the products are created by the submissions
InitWatch ==
    /\ settings \in {c \in SettingsChoices :
                       c.ENABLE_PA_API /\ c.credentials /\ c.channel = "missing"}
    /\ users = [u \in Users |-> NewUser(u = VipUser)]
    /\ products = <<>>
    /\ user_products = <<>>
    /\ price_history = [pid \in Asins |-> <<>>]
    /\ _product_index = 0
    /\ job = [i \in Inst |-> IdleJob]
    /\ running = 0
    /\ visited = [t \in Tiers |-> {}]
    /\ NoCall

\* the links are those of the products 1 and 2; the source returns nothing for a
\* link, or a snapshot without a price, with the price 0.0 or with MaxPrice
NextWatch ==
    \/ \E u \in Users, asin \in {1, 2}, r \in ApiLink :
          r.price \in {None, 0, MaxPrice} /\ handle_amazon_link(u, asin, r)
    \/ \E u \in Users, asin \in {1, 2} : remove_command(u, asin)
    \/ \E u \in Users, asin \in {1, 2} : handle_callback_query(u, asin)

SpecWatch == InitWatch /\ [][NextWatch]_vars

WatchRowsIn(ups, u, pid) ==
    {k \in 1..Len(ups) : ups[k].user_id = u /\ ups[k].product_id = pid}

\* C36: before and after every step there is at most one Watch row for each pair of
\* subscriber and item; a step that adds a Watch row adds it for a pair that had
\* none, and an observation row is added to an item only together with the Watch of
\* a subscriber who did not watch it: a link of an item the subscriber watches
\* already adds neither.
C36_OneWatchPerSubscriberAndItem ==
    [][/\ \A u \in Users, pid \in Asins :
             /\ Cardinality(WatchRowsIn(user_products, u, pid)) <= 1
             /\ Cardinality(WatchRowsIn(user_products', u, pid)) <= 1
       /\ Len(user_products') > Len(user_products) =>
             LET new == user_products'[Len(user_products')]
             IN WatchRowsIn(user_products, new.user_id, new.product_id) = {}
       /\ \A u \in Users, asin \in Asins, r \in ApiLink :
             (/\ handle_amazon_link(u, asin, r)
              /\ WatchRowsIn(user_products, u, FindProduct(asin)) # {})
             => UNCHANGED <<user_products, price_history>>
       /\ \A pid \in Asins :
             price_history'[pid] # price_history[pid] =>
                \E u \in Users : /\ WatchRowsIn(user_products, u, pid) = {}
                                 /\ WatchRowsIn(user_products', u, pid) # {}]_vars

\* the only watcher of a product submitted its link again, this time with a price:
\* the product took the price as its initial_price, and no row was added
C36_Witness ==
    \E u \in Users, pid \in Asins :
        /\ pid <= Len(products)
        /\ Len(user_products) = 1
        /\ WatchRowsIn(user_products, u, pid) # {}
        /\ price_history[pid] = <<>>
        /\ Truthy(products[pid].initial_price)

\* C37: a removal by /remove or by the confirm-remove button deletes the one Watch
\* row of the requesting subscriber and the item, and leaves every other Watch row,
\* the items with their initial_price, the observation rows and the users as they
\* were; no step deletes an item or changes which item a Watch row refers to.
C37_RemovalDeletesOneWatchOnly ==
    [][/\ \A u \in Users, asin \in Asins :
             (remove_command(u, asin) \/ handle_callback_query(u, asin)) =>
                /\ \E k \in WatchRowsIn(user_products, u, FindProduct(asin)) :
                      user_products' = RemoveAt(user_products, k)
                /\ UNCHANGED <<products, price_history, users>>
       /\ Len(user_products') < Len(user_products) =>
             /\ \E k \in 1..Len(user_products) : user_products' = RemoveAt(user_products, k)
             /\ UNCHANGED <<products, price_history, users>>
       /\ Len(products') >= Len(products)
       /\ \A pid \in 1..Len(products) : products'[pid].asin = products[pid].asin
       /\ \A k \in 1..Len(user_products') :
             user_products'[k].product_id \in 1..Len(products')]_vars

\* a product with two observation rows and an initial_price, whose first watcher
\* removed it while the second one still watches it
C37_Witness ==
    \E pid \in Asins :
        /\ pid <= Len(products)
        /\ Len(price_history[pid]) = 2
        /\ Truthy(products[pid].initial_price)
        /\ Len(user_products) = 1
        /\ user_products[1].product_id = pid

\* ---- termination of a job invocation ----
\* SpecTerm: one invocation at a time, of either job, over the populations of
\* SpecBatch, with the API client and a Settings class that defines the channel
\* attributes, so that drops are delivered to the channel and to the watchers.
\* The event loop resumes every coroutine that is ready and every awaited call
\* (the fetch, the sends, the sleep) returns, bot.get_me() returns or raises: each
\* step of an invocation that stays enabled is eventually taken
InitTerm ==
    /\ settings \in {c \in SettingsChoices :
                       c.ENABLE_PA_API /\ c.credentials /\ c.channel # "missing"}
    /\ InitFixed

NextTerm ==
    \/ \E i \in DetInst, t \in Tiers : StartJob(i, t)
    \/ \E i \in DetInst : GetMeReturns(i)
    \/ \E i \in DetInst : GetMeRaises(i)
    \/ \E i \in DetInst, commit \in CommitOutcomes :
          \E r \in FetchResults(job[i].method) :
             r.price # 0 /\ CheckProduct(i, r, commit)
    \/ \E i \in DetInst : JobFails(i)
    \/ \E i \in DetInst, ok \in BOOLEAN : BroadcastReturns(i, ok)
    \/ \E i \in DetInst, aware \in BOOLEAN : StatsAndWatchers(i, aware)
    \/ \E i \in DetInst, ok \in BOOLEAN : SendReturns(i, ok)
    \/ \E i \in DetInst : ItemDone(i)
    \/ \E i \in DetInst : Wake(i)

SpecTerm ==
    /\ InitTerm
    /\ [][NextTerm]_vars
    /\ \A i \in DetInst :
        /\ WF_vars(GetMeReturns(i))
        /\ WF_vars(\E commit \in CommitOutcomes :
                      \E r \in FetchResults(job[i].method) :
                         r.price # 0 /\ CheckProduct(i, r, commit))
        /\ WF_vars(JobFails(i))
        /\ WF_vars(\E ok \in BOOLEAN : BroadcastReturns(i, ok))
        /\ WF_vars(\E aware \in BOOLEAN : StatsAndWatchers(i, aware))
        /\ WF_vars(\E ok \in BOOLEAN : SendReturns(i, ok))
        /\ WF_vars(ItemDone(i))
        /\ WF_vars(Wake(i))

\* C38: an invocation that has started returns; when it returns after its loop has
\* started it has performed products_to_check checks; the loop counter goes up by one
\* between two checks and stays below products_to_check while the invocation runs,
\* whatever the cursor is.
C38_InvocationPerformsBudgetAndReturns ==
    /\ \A i \in DetInst : (job[i].pc # "idle") ~> (job[i].pc = "idle")
    /\ [][\A i \in DetInst :
             /\ (job[i].pc \notin {"idle", "get_me"} /\ job'[i].pc = "idle")
                   => job[i].checked_count + 1 = job[i].products_to_check
             /\ (job[i].pc = "item_done" /\ job'[i].pc = "sleep")
                   => job'[i].checked_count = job[i].checked_count + 1
             /\ (job[i].pc \notin {"idle", "get_me", "item_done"} /\ job'[i].pc # "idle")
                   => job'[i].checked_count = job[i].checked_count
             /\ job'[i].pc \notin {"idle", "get_me"}
                   => job'[i].checked_count < job'[i].products_to_check]_vars

====
